---- MODULE Spec2Model ----
(***************************************************************************)
(* Model of the news ingestion backend: the deduplicator and the fetch     *)
(* cycle (news_fetcher.py), the background scheduler and its control       *)
(* surface (main.py), and the persistence boundary (firestore.py).         *)
(*                                                                         *)
(* The event loop is cooperative: a coroutine runs without interruption    *)
(* from one suspension point to the next, so one action of the model is    *)
(* the code between two suspension points.  The loop task suspends at the  *)
(* headline request (aiohttp), at the classification request (httpx) and   *)
(* at asyncio.sleep; RSS parsing, article extraction, summarisation and    *)
(* the Firestore calls are synchronous.  asyncio.CancelledError derives    *)
(* from BaseException (Python 3.8 and later), so no `except Exception` of  *)
(* the code catches a cancellation.                                        *)
(***************************************************************************)
EXTENDS Integers, Sequences, FiniteSets, TLC

\* ------------------------------------------------------------------ bounds
\* Longest article list handed to _remove_duplicates in SpecDedup.
MaxArticles == 3
\* Most entries one upstream source serves in one cycle.
MaxEntries == 2
\* Most loop tasks created in one run of the model.
MaxTasks == 2
\* The count of the dicts built for one URL stops here.
MaxCount == 2
\* Most img tags of a document handed to extract_images in SpecImages.
MaxImgs == 3
\* Longest interval, in minutes, the loop is started with in SpecInterval.
MaxInterval == 60

\* ------------------------------------------------------- program constants
\* feed.entries[:10]
EntryCap == 10
\* asyncio.sleep(300) of the except clause of continuous_fetch
CooldownSeconds == 300

None == "None"

\* ---------------------------------------------------------------- strings
\* A title is a sequence of characters; str.lower() maps each cased
\* character to its lower-case form and leaves the others alone.
LowerChar(c) ==
    CASE c = "S" -> "s"
      [] c = "T" -> "t"
      [] c = "R" -> "r"
      [] OTHER -> c

Lower(s) == [i \in 1..Len(s) |-> LowerChar(s[i])]

\* hashlib.md5(x.encode()).hexdigest(): a digest that identifies its input
\* (collisions are outside the model).
Md5(s) == <<"md5", s>>

Urls == {"u1", "u2"}

\* "St", "ST", "st", "R"
Titles == {<<"S", "t">>, <<"S", "T">>, <<"s", "t">>, <<"R">>}

\* The RSS sources, in the order of the RSS_FEEDS dict (two of the nine).
RssSources == <<"BBC", "CNN">>

RssNames == {RssSources[i] : i \in 1..Len(RssSources)}

\* NewsItem (the fields the pipeline reads).
NewsItem(u, t, c, s) == [url |-> u, title |-> t, content |-> c, source |-> s]

SeqsUpTo(S, n) == UNION {[1..k -> S] : k \in 0..n}

Take(s, n) == SubSeq(s, 1, IF Len(s) < n THEN Len(s) ELSE n)

\* ------------------------------------------------------------ deduplicator
\* One iteration of the loop of _remove_duplicates, comparing titles exactly.
DedupStepCaseSensitive(st, article) ==
    IF article.url \in st.seen_urls
    THEN st
    ELSE LET title_hash == Md5(article.title)
         IN  IF title_hash \in st.seen_titles
             THEN st
             ELSE [seen_urls |-> st.seen_urls \cup {article.url},
                   seen_titles |-> st.seen_titles \cup {title_hash},
                   unique_articles |-> Append(st.unique_articles, article)]

\* One iteration of the loop of _remove_duplicates without the URL test.
DedupStepTitleOnly(st, article) ==
    LET title_hash == Md5(Lower(article.title))
    IN  IF title_hash \in st.seen_titles
        THEN st
        ELSE [seen_urls |-> st.seen_urls \cup {article.url},
              seen_titles |-> st.seen_titles \cup {title_hash},
              unique_articles |-> Append(st.unique_articles, article)]

\* One iteration of the loop of _remove_duplicates: st carries seen_urls,
\* seen_titles and unique_articles.
DedupStep(st, article) ==
    IF article.url \in st.seen_urls
    THEN st
    ELSE LET title_hash == Md5(Lower(article.title))
         IN  IF title_hash \in st.seen_titles
             THEN st
             ELSE [seen_urls |-> st.seen_urls \cup {article.url},
                   seen_titles |-> st.seen_titles \cup {title_hash},
                   unique_articles |-> Append(st.unique_articles, article)]

RECURSIVE DedupLoop(_, _)
DedupLoop(st, rest) ==
    IF rest = <<>> THEN st
    ELSE DedupLoop(DedupStep(st, Head(rest)), Tail(rest))

\* fetch_all_news handing every article gathered to _process_articles.
RemoveDuplicatesKeepsAll(arts) == arts

RemoveDuplicates(arts) ==
    DedupLoop([seen_urls |-> {}, seen_titles |-> {}, unique_articles |-> <<>>],
              arts).unique_articles

\* --------------------------------------------------------------- upstream
\* A feed entry as feedparser hands it over.  extract is what newspaper's
\* Article(url).text yields for the link ("" when the download or the parse
\* fails, _extract_content); ok = FALSE is an entry the loop body raises on
\* (no link, no title, a published_parsed that is no date).
RssEntry(u, t, x, k) ==
    [link |-> u, title |-> t, summary |-> "summary", extract |-> x, ok |-> k]

RssEntries ==
    { RssEntry("u1", <<"S", "t">>, "full", TRUE),
      RssEntry("u2", <<"S", "T">>, "", TRUE),
      RssEntry("u2", <<"R">>, "", FALSE) }

\* An item of the headline API's JSON.  description may be null; ok = FALSE
\* is an item whose publishedAt datetime.fromisoformat rejects.
ApiItem(u, t, d, x, k) ==
    [url |-> u, title |-> t, description |-> d, extract |-> x, ok |-> k]

ApiItems ==
    { ApiItem("u2", <<"S", "t">>, None, "", TRUE),
      ApiItem("u1", <<"R">>, "description", "", TRUE),
      ApiItem("u1", <<"R">>, "description", "", FALSE) }

\* What the RSS sources serve in one cycle.
RssFeeds(entries) == [RssNames -> SeqsUpTo(entries, MaxEntries)]

\* What the headline API answers in one cycle: the JSON status and articles,
\* and whether the request itself raises (network error, invalid JSON).
ApiResponses(items) ==
    [status : {"ok", "error"}, articles : SeqsUpTo(items, MaxEntries),
     raises : {FALSE}]
    \cup [status : {"ok"}, articles : {<<>>}, raises : {TRUE}]

\* -------------------------------------------------------- source adapters
\* x or y, for Python strings (and None)
PyOr(x, y) == IF x = "" \/ x = None THEN y ELSE x

\* The body of `for entry in feed.entries[:10]` for one source: every entry
\* appends a NewsItem to all_articles until one raises; the except clause of
\* the source then moves on to the next source.
RECURSIVE RssItems(_, _)
RssItems(source, entries) ==
    IF entries = <<>> THEN <<>>
    ELSE LET entry == Head(entries)
         IN  IF ~entry.ok THEN <<>>
             ELSE <<NewsItem(entry.link, entry.title,
                             PyOr(entry.extract, entry.summary), source)>>
                  \o RssItems(source, Tail(entries))

\* RSSFeedFetcher.fetch_from_rss where the except clause of one source ends
\* the loop over the sources.
RECURSIVE FetchFromRssAborting(_, _)
FetchFromRssAborting(feeds, i) ==
    IF i > Len(RssSources) THEN <<>>
    ELSE LET entries == Take(feeds[RssSources[i]], EntryCap)
         IN  IF \E k \in 1..Len(entries) : ~entries[k].ok
             THEN RssItems(RssSources[i], entries)
             ELSE RssItems(RssSources[i], entries)
                  \o FetchFromRssAborting(feeds, i + 1)

\* RSSFeedFetcher.fetch_from_rss(): the sources from the i-th on, in order.
RECURSIVE FetchFromRss(_, _)
FetchFromRss(feeds, i) ==
    IF i > Len(RssSources) THEN <<>>
    ELSE RssItems(RssSources[i], Take(feeds[RssSources[i]], EntryCap))
         \o FetchFromRss(feeds, i + 1)

\* The articles loop of fetch_top_headlines over a response of status ok.
RECURSIVE ApiArticles(_)
ApiArticles(items) ==
    IF items = <<>> THEN <<>>
    ELSE LET article == Head(items)
             rest == ApiArticles(Tail(items))
         IN  IF article.title # <<>> /\ article.url # ""
             THEN <<NewsItem(article.url, article.title,
                             PyOr(article.extract, article.description),
                             "NewsAPI")>> \o rest
             ELSE rest

\* NewsAPIClient.fetch_top_headlines(): [] when the request raises, when the
\* status is not ok, or when any item raises inside the try.
FetchTopHeadlines(resp) ==
    IF resp.raises THEN <<>>
    ELSE IF resp.status # "ok" THEN <<>>
    ELSE IF \E i \in 1..Len(resp.articles) : ~resp.articles[i].ok THEN <<>>
    ELSE ApiArticles(resp.articles)

\* What a cycle keeps of the headline API's answer: that the source failed
\* (the request raised, the status was not ok, or an item raised), or the
\* items it served.
NoAnswer == [outcome |-> "none", articles |-> <<>>]

ApiOutcome(resp) ==
    IF \/ resp.raises
       \/ resp.status # "ok"
       \/ \E i \in 1..Len(resp.articles) : ~resp.articles[i].ok
    THEN [outcome |-> "failed", articles |-> <<>>]
    ELSE [outcome |-> "ok", articles |-> resp.articles]

NoFeeds == [n \in RssNames |-> <<>>]

\* ------------------------------------------------------------ persistence
UrlHashes == {Md5(u) : u \in Urls}

\* add_news_item without the query for an existing url_hash.
AddNewsItemNoQuery(st, data, fails) ==
    LET url_hash == Md5(data.url)
    IN  IF fails
        THEN [store |-> st, ret |-> FALSE, how |-> "store_error",
              url_hash |-> url_hash]
        ELSE [store |-> [st EXCEPT ![url_hash] = @ + 1], ret |-> TRUE,
              how |-> "stored", url_hash |-> url_hash]

\* add_news_item(data): the store after the call, the value returned and
\* the url_hash written into data.  fails is a Firestore error inside the
\* try: it is printed and False is returned.  The store counts the documents
\* of each url_hash.
AddNewsItem(st, data, fails) ==
    LET url_hash == Md5(data.url)
    IN  IF fails
        THEN [store |-> st, ret |-> FALSE, how |-> "store_error",
              url_hash |-> url_hash]
        ELSE IF st[url_hash] > 0
        THEN [store |-> st, ret |-> FALSE, how |-> "duplicate",
              url_hash |-> url_hash]
        ELSE [store |-> [st EXCEPT ![url_hash] = @ + 1], ret |-> TRUE,
              how |-> "stored", url_hash |-> url_hash]

\* --------------------------------------------------------- image selector
\* An attribute of an img tag that is missing (or empty), and a width or
\* height that int() rejects.
Absent == -1

NotANumber == -2

\* An img tag: src, width and height, and in how many of the article
\* indicators its class, its id and its alt text are found.
ImgTag(src, w, h, c, i, a) ==
    [src |-> src, width |-> w, height |-> h,
     class_hits |-> c, id_hits |-> i, alt_hits |-> a]

ImgTags ==
    { ImgTag("https://host/s.jpg", 100, 100, 0, 0, 0),
      ImgTag("https://host/w.jpg", 100, Absent, 1, 0, 0),
      ImgTag("/h.jpg", 400, 300, 1, 0, 0),
      ImgTag("https://host/p.png", 300, 200, 0, 0, 0),
      ImgTag("https://host/x.jpg", 400, 300, 2, 1, 1),
      ImgTag("https://host/logo.jpg", 400, 300, 1, 0, 0),
      ImgTag("", Absent, Absent, 1, 0, 0),
      ImgTag("https://host/b.jpg", NotANumber, 100, 0, 0, 0),
      ImgTag("https://host/a.gif", Absent, Absent, 1, 0, 0) }

\* The content of a meta image tag: None without the tag, "" for a tag
\* without content.
OgImages == {None, "", "https://host/og.jpg"}

TwitterImages == {None, "https://host/tw.jpg"}

\* A document: parses is FALSE for markup BeautifulSoup raises on.
NoDoc == [imgs |-> <<>>, og |-> None, twitter |-> None, parses |-> TRUE]

\* The relative src of the documents, made absolute.
AbsoluteSrc(src) == IF src = "/h.jpg" THEN "https://host/h.jpg" ELSE src

\* any(pattern in src_lower for pattern in skip_patterns)
HasSkipPattern(src) == src = "https://host/logo.jpg"

\* re.search(r'\.(ico|svg|gif)$', src_lower)
IconExtension(src) == src = "https://host/a.gif"

\* src.lower().endswith(('.jpg', '.jpeg', '.png'))
PhotoExtension(src) == src # "" /\ ~IconExtension(src)

\* is_valid_image: the size test is made when both width and height are
\* given, and is skipped when int() rejects one of them.
IsValidImage(img, src) ==
    IF HasSkipPattern(src) THEN FALSE
    ELSE IF /\ img.width # Absent /\ img.height # Absent
            /\ img.width # NotANumber /\ img.height # NotANumber
            /\ (img.width < 200 \/ img.height < 200)
    THEN FALSE
    ELSE ~IconExtension(src)

IsPotentialTopImage(img, src) ==
    img.class_hits > 0 \/ img.id_hits > 0 \/ img.alt_hits > 0

CalculateImageScore(img, src) ==
    LET w == img.width
        h == img.height
        sized == w # Absent /\ h # Absent /\ w # NotANumber /\ h # NotANumber
        dims == IF ~sized THEN 0
                ELSE IF w >= 400 /\ h >= 300 THEN 30
                ELSE IF w >= 300 /\ h >= 200 THEN 20
                ELSE IF w >= 200 /\ h >= 150 THEN 10
                ELSE 0
    IN  10 + dims + 25 * img.class_hits + 20 * img.id_hits + 15 * img.alt_hits
        + (IF PhotoExtension(src) THEN 5 ELSE 0)

\* get_meta_image(): the content of the tag, None without it.
GetMetaImage(content) == content

\* The loop over the img tags: the sources kept, in order, and the
\* candidates for the top image with their scores.
RECURSIVE ScanImgs(_)
ScanImgs(imgs) ==
    IF imgs = <<>> THEN [images |-> <<>>, potential |-> <<>>]
    ELSE LET img == Head(imgs)
             rest == ScanImgs(Tail(imgs))
             src == AbsoluteSrc(img.src)
         IN  IF img.src = "" THEN rest
             ELSE IF ~IsValidImage(img, src) THEN rest
             ELSE [images |-> <<src>> \o rest.images,
                   potential |->
                       (IF IsPotentialTopImage(img, src)
                        THEN <<[url |-> src, score |-> CalculateImageScore(img, src)]>>
                        ELSE <<>>) \o rest.potential]

\* The Open Graph image joins the candidates with score 100, the Twitter
\* Card image with score 90.
WithMetaImages(potential, og_image, twitter_image) ==
    potential
    \o (IF og_image # None /\ og_image # ""
        THEN <<[url |-> og_image, score |-> 100]>> ELSE <<>>)
    \o (IF twitter_image # None /\ twitter_image # ""
        THEN <<[url |-> twitter_image, score |-> 90]>> ELSE <<>>)

\* max(potential_top_images, key=score): the first of the highest score.
BestImage(potential) ==
    potential[CHOOSE i \in 1..Len(potential) :
                 /\ \A j \in 1..Len(potential) : potential[j].score <= potential[i].score
                 /\ \A j \in 1..(i - 1) : potential[j].score < potential[i].score]

SelectTopImage(potential, images) ==
    IF potential # <<>> THEN BestImage(potential).url
    ELSE IF images # <<>> THEN images[1]
    ELSE ""

\* The name `article` the logger.debug lines 120-122 read is a global of
\* the module, and nothing binds it when extract_images runs (the module
\* assigns it at line 311 only, run as a script, after the call returned).
ArticleIsBoundEverywhere == TRUE

ArticleIsBound == FALSE

\* What extract_images returns; failed is that its except clause ran,
\* raised that an exception left it.
NoImages == [images |-> {}, top_image |-> "", failed |-> FALSE, raised |-> FALSE]

\* The try block of extract_images: the result it reaches, or that an
\* exception was raised in it.
ExtractImagesTry(doc) ==
    IF ~doc.parses THEN [NoImages EXCEPT !.failed = TRUE]
    ELSE LET scan == ScanImgs(doc.imgs)
             potential == WithMetaImages(scan.potential, GetMetaImage(doc.og),
                                         GetMetaImage(doc.twitter))
             top_image == SelectTopImage(potential, scan.images)
         IN  IF ~ArticleIsBound THEN [NoImages EXCEPT !.failed = TRUE]
             ELSE [NoImages EXCEPT
                     !.images = {scan.images[i] : i \in 1..Len(scan.images)},
                     !.top_image = top_image]

\* The except clause of extract_images, were it to raise again.
ExtractImagesExceptRaises(tried) ==
    IF tried.failed THEN [NoImages EXCEPT !.failed = TRUE, !.raised = TRUE]
    ELSE tried

\* The except clause of extract_images: log and return [], "".
ExtractImagesExcept(tried) ==
    IF tried.failed THEN [NoImages EXCEPT !.failed = TRUE] ELSE tried

ExtractImages(doc) == ExtractImagesExcept(ExtractImagesTry(doc))

\* ------------------------------------------------------------------- state
VARIABLES
    dd_in, dd_out, dd_pc,   \* SpecDedup: argument, result and position of one call
    app,                    \* "lib": a NewsScheduler driven through its own methods;
                            \* "boot", "up", "down": the FastAPI application
    news_api,               \* NewsFetcher.news_api is set
    running,                \* NewsScheduler.running
    background_task,        \* main.background_task: 0 (None) or a task
    processed_urls,         \* NewsFetcher.processed_urls of the scheduler's fetcher
    store,                  \* the news_summaries collection
    tasks,                  \* the tasks created by asyncio.create_task
    last,                   \* the last control call: what it was, the state it
                            \* met and what it returned
    manual,                 \* the /fetch-news-once request being served
    manual_urls,            \* processed_urls of that request's own NewsFetcher
    scrape,                 \* the URL of the /scrape-and-summarize request being
                            \* served, "" when there is none
    created,                \* how many dicts _process_articles built for each URL
                            \* (counted up to MaxCount)
    img_in, img_out, img_pc,\* SpecImages: document, result and position of one
                            \* call of extract_images
    iv_in, iv_out, iv_pc    \* SpecInterval: interval_minutes of a loop, the
                            \* seconds of its last sleep, and its position

dd_vars == <<dd_in, dd_out, dd_pc>>

img_vars == <<img_in, img_out, img_pc>>

iv_vars == <<iv_in, iv_out, iv_pc>>

req_vars == <<manual, manual_urls, scrape>>

sys_vars == <<app, news_api, running, background_task, processed_urls, store,
              tasks, last, manual, manual_urls, scrape, created>>

vars == <<dd_in, dd_out, dd_pc, app, news_api, running, background_task,
          processed_urls, store, tasks, last, manual, manual_urls, scrape,
          created, img_in, img_out, img_pc, iv_in, iv_out, iv_pc>>

TaskIds == 1..MaxTasks

\* A task of continuous_fetch.  pc is the await it is suspended at:
\* "created" (not yet run), "api" (the headline request), "classify" (the
\* classification request for unique[idx]), "sleep" (the inter-cycle sleep),
\* "cooldown" (the sleep after a failed cycle), or "done" (cancelled).
\* must_cancel: Task.cancel() was called and CancelledError is not yet
\* delivered.  stop_signalled: a stop call was made while the task was alive.
\* feeds is what the RSS sources served in the current cycle (kept until the
\* headline API answers), resp what the cycle keeps of the API's answer.
NoTask ==
    [pc |-> "none", must_cancel |-> FALSE, stop_signalled |-> FALSE,
     feeds |-> NoFeeds, resp |-> NoAnswer, all_articles |-> <<>>, unique |-> <<>>,
     idx |-> 0, processed |-> <<>>, log |-> <<>>, cycle_error |-> FALSE]

NewTask == [NoTask EXCEPT !.pc = "created"]

NumTasks == Cardinality({t \in TaskIds : tasks[t].pc # "none"})

\* Task.done()
Done(t) == tasks[t].pc = "done"

Live(t) == tasks[t].pc \notin {"none", "done"}

\* -------------------------------------------------------------- classifier
CATEGORY_LABELS ==
    <<"technology", "sports", "health", "business", "entertainment", "science",
      "general">>

\* What the classification request comes to: failed is an exception inside
\* the try (connection error, the 20 s timeout, a body that is no JSON),
\* mentions the labels found in the lower-cased response text.
Answer(failed, mentions) == [failed |-> failed, mentions |-> mentions]

ClassifierAnswers ==
    { Answer(TRUE, {}), Answer(FALSE, {}), Answer(FALSE, {"sports"}),
      Answer(FALSE, {"science", "technology"}) }

\* The answer of the runs that do not look at the category.
LifecycleAnswers == {Answer(FALSE, {"sports"})}

\* classify_category_ollama where the except clause hands on None.
ClassifyCategoryOllamaNoFallback(answer) ==
    IF answer.failed THEN None
    ELSE IF \E i \in 1..Len(CATEGORY_LABELS) : CATEGORY_LABELS[i] \in answer.mentions
    THEN CATEGORY_LABELS[CHOOSE i \in 1..Len(CATEGORY_LABELS) :
                           /\ CATEGORY_LABELS[i] \in answer.mentions
                           /\ \A j \in 1..(i - 1) :
                                 CATEGORY_LABELS[j] \notin answer.mentions]
    ELSE "general"

\* classify_category_ollama(): the first label of CATEGORY_LABELS found in
\* the response, "general" when there is none or when the request failed.
ClassifyCategoryOllama(answer) ==
    IF answer.failed THEN "general"
    ELSE IF \E i \in 1..Len(CATEGORY_LABELS) : CATEGORY_LABELS[i] \in answer.mentions
    THEN CATEGORY_LABELS[CHOOSE i \in 1..Len(CATEGORY_LABELS) :
                           /\ CATEGORY_LABELS[i] \in answer.mentions
                           /\ \A j \in 1..(i - 1) :
                                 CATEGORY_LABELS[j] \notin answer.mentions]
    ELSE "general"

\* ------------------------------------------------------- article processor
\* The dict of _process_articles with the hash taken over the body text.
ProcessedDataHashesContent(article) ==
    [url |-> article.url, title |-> article.title, content |-> article.content,
     source |-> article.source, url_hash |-> Md5(article.content)]

\* The dict _process_articles builds for an article.
ProcessedData(article) ==
    [url |-> article.url, title |-> article.title, content |-> article.content,
     source |-> article.source, url_hash |-> Md5(article.url)]

\* The dict with the category the classifier returned.
Categorised(data, category) ==
    [url |-> data.url, title |-> data.title, content |-> data.content,
     source |-> data.source, url_hash |-> data.url_hash, category |-> category]

LogEntry(article, outcome) == [url |-> article.url, outcome |-> outcome]

\* One more dict built for the URL.
Bump(count, u) ==
    [count EXCEPT ![u] = IF @ < MaxCount THEN @ + 1 ELSE @]

RECURSIVE ProcessFrom(_, _, _)

\* The except clause of the article loop, were it to leave the loop.
ArticleRaisedAborts(tk, purls, i) ==
    [tk EXCEPT !.log = Append(@, LogEntry(tk.unique[i], "error")),
               !.pc = "returned", !.idx = 0]

\* The except clause of the article loop: log the error and go on with the
\* next article.
ArticleRaised(tk, purls, i) ==
    ProcessFrom([tk EXCEPT !.log = Append(@, LogEntry(tk.unique[i], "error"))],
                purls, i + 1)

\* _process_articles without the test of processed_urls.
ProcessFromNoSkip(tk, purls, i) ==
    IF i > Len(tk.unique)
    THEN [tk EXCEPT !.pc = "returned", !.idx = 0]
    ELSE LET article == tk.unique[i]
         IN  IF article.content = None
             THEN ArticleRaised(tk, purls, i)
             ELSE [tk EXCEPT !.pc = "classify", !.idx = i]

\* _process_articles from the i-th article on, up to the next suspension:
\* an article already in processed_urls is skipped; one whose content is
\* None raises TypeError at article.content[:1000]; any other is summarised
\* and awaits its classification.  Past the last article the call returns.
ProcessFrom(tk, purls, i) ==
    IF i > Len(tk.unique)
    THEN [tk EXCEPT !.pc = "returned", !.idx = 0]
    ELSE LET article == tk.unique[i]
         IN  IF article.url \in purls
             THEN ProcessFrom([tk EXCEPT !.log = Append(@, LogEntry(article, "seen"))],
                              purls, i + 1)
             ELSE IF article.content = None
             THEN ArticleRaised(tk, purls, i)
             ELSE [tk EXCEPT !.pc = "classify", !.idx = i]

\* continuous_fetch after fetch_all_news returned: the inter-cycle sleep.
AfterCycle(tk) == IF tk.pc = "returned" THEN [tk EXCEPT !.pc = "sleep"] ELSE tk

\* fetch_all_news with a delivered set that starts empty in every cycle.
DedupAndProcessForgets(tk, purls) ==
    AfterCycle(ProcessFrom([tk EXCEPT !.unique = RemoveDuplicates(tk.all_articles)],
                           {}, 1))

\* fetch_all_news once every source has answered: deduplicate and process.
DedupAndProcess(tk, purls) ==
    AfterCycle(ProcessFrom([tk EXCEPT !.unique = RemoveDuplicates(tk.all_articles)],
                           purls, 1))

\* ---------------------------------------------------------- the loop task
\* The except clause of continuous_fetch, were it to log and leave the loop.
CycleRaisedEndsLoop(tk) ==
    [NoTask EXCEPT !.pc = "done", !.cycle_error = TRUE, !.resp = tk.resp]

\* The except clause of continuous_fetch: log the error and sleep 300 s.
CycleRaised(tk) ==
    [NoTask EXCEPT !.pc = "cooldown", !.cycle_error = TRUE,
                   !.resp = tk.resp,
                   !.must_cancel = tk.must_cancel,
                   !.stop_signalled = tk.stop_signalled]

\* `while True` of continuous_fetch, from the start of a cycle to its first
\* suspension: fetch_all_news reads every RSS source (no suspension), then
\* awaits the headline request, or, with no API client, goes on to
\* deduplicate and process.
BeginCycle(t, choices) ==
    /\ tasks[t].pc \in {"created", "sleep", "cooldown"}
    /\ ~tasks[t].must_cancel
    /\ \E feeds \in choices :
         LET tk == [tasks[t] EXCEPT !.feeds = feeds, !.resp = NoAnswer,
                                    !.all_articles = FetchFromRss(feeds, 1),
                                    !.unique = <<>>, !.idx = 0,
                                    !.processed = <<>>, !.log = <<>>,
                                    !.cycle_error = FALSE]
         IN  tasks' = [tasks EXCEPT ![t] =
                         IF news_api THEN [tk EXCEPT !.pc = "api"]
                         ELSE DedupAndProcess(tk, processed_urls)]
    /\ UNCHANGED <<dd_vars, iv_vars, img_vars, req_vars, created, app, news_api, running, background_task,
                   processed_urls, store, last>>

\* The headline request completes.  escapes is an exception raised outside
\* the try of fetch_top_headlines (the ClientSession of line 52), which
\* leaves fetch_all_news and reaches the except clause of continuous_fetch.
ApiReturn(t, choices) ==
    /\ tasks[t].pc = "api"
    /\ ~tasks[t].must_cancel
    /\ \E resp \in choices, escapes \in BOOLEAN :
         LET tk == [tasks[t] EXCEPT !.feeds = NoFeeds, !.resp = ApiOutcome(resp),
                                    !.all_articles = @ \o FetchTopHeadlines(resp)]
             escaped == [outcome |-> "escaped", articles |-> <<>>]
         IN  tasks' = [tasks EXCEPT ![t] =
                         IF escapes
                         THEN CycleRaised([tasks[t] EXCEPT !.resp = escaped])
                         ELSE DedupAndProcess(tk, processed_urls)]
    /\ UNCHANGED <<dd_vars, iv_vars, img_vars, req_vars, created, app, news_api, running, background_task,
                   processed_urls, store, last>>

\* The classification request completes and add_news_item is left at a
\* suspension of its own: the article is stored, not yet recorded.
ClassifyReturnSuspendsInAdd(t, answers) ==
    /\ tasks[t].pc = "classify"
    /\ ~tasks[t].must_cancel
    /\ \E fails \in BOOLEAN, answer \in answers :
         LET article == tasks[t].unique[tasks[t].idx]
             data == Categorised(ProcessedData(article),
                                 ClassifyCategoryOllama(answer))
             added == AddNewsItem(store, data, fails)
         IN  /\ store' = added.store
             /\ created' = Bump(created, article.url)
    /\ UNCHANGED <<dd_vars, iv_vars, img_vars, req_vars, app, news_api, running,
                   background_task, last, processed_urls, tasks>>

\* The classification request for unique[idx] completes (with a label, or
\* with "general" on any failure): the dict is built, handed to
\* add_news_item, appended to processed, and the URL joins processed_urls;
\* the loop goes on to the next suspension.
ClassifyReturn(t, answers) ==
    /\ tasks[t].pc = "classify"
    /\ ~tasks[t].must_cancel
    /\ \E fails \in BOOLEAN, answer \in answers :
         LET article == tasks[t].unique[tasks[t].idx]
             data == Categorised(ProcessedData(article),
                                 ClassifyCategoryOllama(answer))
             added == AddNewsItem(store, data, fails)
             purls == processed_urls \cup {article.url}
             tk == [tasks[t] EXCEPT !.processed = Append(@, data),
                                    !.log = Append(@, LogEntry(article, added.how))]
         IN  /\ store' = added.store
             /\ processed_urls' = purls
             /\ created' = Bump(created, article.url)
             /\ tasks' = [tasks EXCEPT ![t] =
                            AfterCycle(ProcessFrom(tk, purls, tasks[t].idx + 1))]
    /\ UNCHANGED <<dd_vars, iv_vars, img_vars, req_vars, app, news_api, running, background_task, last>>

\* CancelledError is raised at the await the task is suspended at; nothing
\* of the coroutine catches it and the task is done.
CancelDeliver(t) ==
    /\ Live(t)
    /\ tasks[t].must_cancel
    /\ tasks' = [tasks EXCEPT ![t] = [NoTask EXCEPT !.pc = "done"]]
    /\ UNCHANGED <<dd_vars, iv_vars, img_vars, req_vars, created, app, news_api, running, background_task,
                   processed_urls, store, last>>

\* -------------------------------------------------------------- scheduler
\* The loops that still run cycles: alive and not cancelled.
ActiveLoops == {t \in TaskIds : Live(t) /\ ~tasks[t].must_cancel}

\* What a control call met: the running flag, the number of active loops
\* and the number of tasks created so far.
Met == [running |-> running, loops |-> Cardinality(ActiveLoops),
        created |-> NumTasks]

\* The tasks with a stop call recorded on those alive.
StopSignalled(ts) ==
    [t \in TaskIds |->
       IF ts[t].pc \notin {"none", "done"}
       THEN [ts[t] EXCEPT !.stop_signalled = TRUE] ELSE ts[t]]

\* Task.cancel(): no effect on a task that is done.
Cancel(ts, t) ==
    IF ts[t].pc \in {"none", "done"} THEN ts
    ELSE [ts EXCEPT ![t].must_cancel = TRUE]

\* start_scheduler without the test of self.running.
StartSchedulerNoGuard(ret) ==
    /\ ret = NumTasks + 1
    /\ ret <= MaxTasks
    /\ running' = TRUE
    /\ tasks' = [tasks EXCEPT ![ret] = NewTask]

\* NewsScheduler.start_scheduler(): ret is the task returned, 0 for None.
StartScheduler(ret) ==
    IF running
    THEN /\ ret = 0
         /\ UNCHANGED <<running, tasks>>
    ELSE /\ ret = NumTasks + 1
         /\ ret <= MaxTasks
         /\ running' = TRUE
         /\ tasks' = [tasks EXCEPT ![ret] = NewTask]

\* stop_scheduler flipping the flag.
StopSchedulerToggles == running' = ~running

\* NewsScheduler.stop_scheduler()
StopScheduler == running' = FALSE

\* A caller of the class: scheduler.start_scheduler()
LibStart ==
    /\ app = "lib"
    /\ \E ret \in 0..MaxTasks :
         /\ StartScheduler(ret)
         /\ last' = [op |-> "start", met |-> Met,
                    ret |-> IF ret = 0 THEN "None" ELSE "task"]
    /\ UNCHANGED <<dd_vars, iv_vars, img_vars, req_vars, created, app, news_api, background_task, processed_urls, store>>

\* A caller of the class: scheduler.stop_scheduler()
LibStop ==
    /\ app = "lib"
    /\ StopScheduler
    /\ tasks' = StopSignalled(tasks)
    /\ last' = [op |-> "stop", met |-> Met, ret |-> "None"]
    /\ UNCHANGED <<dd_vars, iv_vars, img_vars, req_vars, created, app, news_api, background_task, processed_urls, store>>

\* -------------------------------------------------------- control surface
\* The body of start_news_fetching(); the scheduler exists once startup ran.
StartNewsFetchingBody ==
    IF background_task # 0 /\ ~Done(background_task)
    THEN /\ last' = [op |-> "start", met |-> Met, ret |-> "already running"]
         /\ UNCHANGED <<running, tasks, background_task>>
    ELSE \E ret \in 0..MaxTasks :
           /\ StartScheduler(ret)
           /\ background_task' = ret
           /\ last' = [op |-> "start", met |-> Met, ret |-> "started"]

\* startup_event(): create the scheduler and start fetching.
Startup ==
    /\ app = "boot"
    /\ app' = "up"
    /\ StartNewsFetchingBody
    /\ UNCHANGED <<dd_vars, iv_vars, img_vars, req_vars, created, news_api, processed_urls, store>>

\* POST /start-news-fetching
StartNewsFetching ==
    /\ app = "up"
    /\ StartNewsFetchingBody
    /\ UNCHANGED <<dd_vars, iv_vars, img_vars, req_vars, created, app, news_api, processed_urls, store>>

\* scheduler_status(): is_running
IsRunning == background_task # 0 /\ ~Done(background_task)

\* stop_news_fetching keeping the cancelled task in background_task.
StopNewsFetchingKeepsHandle ==
    /\ app = "up"
    /\ StopScheduler
    /\ tasks' = IF background_task # 0
                THEN Cancel(StopSignalled(tasks), background_task)
                ELSE StopSignalled(tasks)
    /\ last' = [op |-> "stop", met |-> Met, ret |-> "stopped"]
    /\ UNCHANGED <<dd_vars, iv_vars, img_vars, req_vars, created, app, news_api,
                   background_task, processed_urls, store>>

\* POST /stop-news-fetching
StopNewsFetching ==
    /\ app = "up"
    /\ StopScheduler
    /\ tasks' = IF background_task # 0
                THEN Cancel(StopSignalled(tasks), background_task)
                ELSE StopSignalled(tasks)
    /\ background_task' = 0
    /\ last' = [op |-> "stop", met |-> Met, ret |-> "stopped"]
    /\ UNCHANGED <<dd_vars, iv_vars, img_vars, req_vars, created, app, news_api, processed_urls, store>>

\* shutdown_event(): background_task keeps the cancelled task.
Shutdown ==
    /\ app = "up"
    /\ app' = "down"
    /\ StopScheduler
    /\ tasks' = IF background_task # 0
                THEN Cancel(StopSignalled(tasks), background_task)
                ELSE StopSignalled(tasks)
    /\ last' = [op |-> "shutdown", met |-> Met, ret |-> "None"]
    /\ UNCHANGED <<dd_vars, iv_vars, img_vars, req_vars, created, news_api, background_task, processed_urls, store>>

\* ------------------------------------------------------------- requests
\* POST /fetch-news-once, up to its first suspension: a NewsFetcher of its
\* own (processed_urls empty, the API key of the module) reads the RSS
\* sources and awaits the headline request.  One such request is served at
\* a time in the model.
FetchNewsOnce(choices) ==
    /\ app = "up"
    /\ manual.pc \in {"none", "returned"}
    /\ \E feeds \in choices :
         manual' = [NoTask EXCEPT !.pc = "api", !.feeds = feeds,
                                  !.all_articles = FetchFromRss(feeds, 1)]
    /\ manual_urls' = {}
    /\ UNCHANGED <<dd_vars, iv_vars, img_vars, app, news_api, running, background_task,
                   processed_urls, store, tasks, last, scrape, created>>

\* The except clause of fetch_news_once: the request is answered 500.
OnceRaised(tk) ==
    [NoTask EXCEPT !.pc = "returned", !.cycle_error = TRUE, !.resp = tk.resp]

\* fetch_news_once after fetch_all_news returned: the request is answered
\* with the articles processed.
OnceAnswered(tk) ==
    IF tk.pc = "returned"
    THEN [NoTask EXCEPT !.pc = "returned", !.processed = tk.processed]
    ELSE tk

\* The headline request of the manual cycle completes.
OnceApiReturn(choices) ==
    /\ manual.pc = "api"
    /\ \E resp \in choices, escapes \in BOOLEAN :
         LET tk == [manual EXCEPT !.feeds = NoFeeds, !.resp = ApiOutcome(resp),
                                  !.all_articles = @ \o FetchTopHeadlines(resp)]
             escaped == [outcome |-> "escaped", articles |-> <<>>]
         IN  manual' =
               IF escapes THEN OnceRaised([manual EXCEPT !.resp = escaped])
               ELSE OnceAnswered(
                      ProcessFrom([tk EXCEPT !.unique = RemoveDuplicates(tk.all_articles)],
                                  manual_urls, 1))
    /\ UNCHANGED <<dd_vars, iv_vars, img_vars, app, news_api, running, background_task,
                   processed_urls, store, tasks, last, manual_urls, scrape,
                   created>>

\* The classification request of the manual cycle completes: as in the
\* loop, with the request's own processed_urls.
OnceClassifyReturn(answers) ==
    /\ manual.pc = "classify"
    /\ \E fails \in BOOLEAN, answer \in answers :
         LET article == manual.unique[manual.idx]
             data == Categorised(ProcessedData(article),
                                 ClassifyCategoryOllama(answer))
             added == AddNewsItem(store, data, fails)
             purls == manual_urls \cup {article.url}
             tk == [manual EXCEPT !.processed = Append(@, data),
                                  !.log = Append(@, LogEntry(article, added.how))]
         IN  /\ store' = added.store
             /\ manual_urls' = purls
             /\ created' = Bump(created, article.url)
             /\ manual' = OnceAnswered(ProcessFrom(tk, purls, manual.idx + 1))
    /\ UNCHANGED <<dd_vars, iv_vars, img_vars, app, news_api, running, background_task,
                   processed_urls, tasks, last, scrape>>

\* The dict scrape_and_summarize builds (the field add_news_item reads).
ScrapedData(u) == [url |-> u]

\* POST /scrape-and-summarize, up to its suspension at the classification
\* request: scrape_article and generate_summary do not suspend and do not
\* raise.  One such request is served at a time in the model.
ScrapeAndSummarize(u) ==
    /\ app = "up"
    /\ scrape = ""
    /\ scrape' = u
    /\ UNCHANGED <<dd_vars, iv_vars, img_vars, app, news_api, running, background_task,
                   processed_urls, store, tasks, last, manual, manual_urls,
                   created>>

\* The classification request of /scrape-and-summarize completes: the dict
\* is handed to add_news_item and the request is answered.
ScrapeClassifyReturn ==
    /\ scrape # ""
    /\ \E fails \in BOOLEAN :
         store' = AddNewsItem(store, ScrapedData(scrape), fails).store
    /\ scrape' = ""
    /\ UNCHANGED <<dd_vars, iv_vars, img_vars, app, news_api, running, background_task,
                   processed_urls, tasks, last, manual, manual_urls, created>>

\* ------------------------------------------------------- specifications
NoCall ==
    [op |-> "none", met |-> [running |-> FALSE, loops |-> 0, created |-> 0],
     ret |-> "None"]

SysIdle ==
    /\ running = FALSE
    /\ background_task = 0
    /\ processed_urls = {}
    /\ store = [h \in UrlHashes |-> 0]
    /\ tasks = [t \in TaskIds |-> NoTask]
    /\ last = NoCall
    /\ manual = NoTask
    /\ manual_urls = {}
    /\ scrape = ""
    /\ created = [u \in Urls |-> 0]

ImagesIdle == img_in = NoDoc /\ img_out = NoImages /\ img_pc = "idle"

IntervalIdle == iv_in = 30 /\ iv_out = 0 /\ iv_pc = "idle"

\* What the sources serve in the runs of Spec: one RSS entry at most, one
\* headline at most.
LifecycleFeeds ==
    {f \in RssFeeds({RssEntry("u1", <<"S", "t">>, "full", TRUE)}) :
       Len(f["BBC"]) <= 1 /\ f["CNN"] = <<>>}

LifecycleResponses ==
    {r \in ApiResponses({ApiItem("u2", <<"s", "t">>, "description", "", TRUE)}) :
       r.status = "ok" /\ ~r.raises /\ Len(r.articles) <= 1}

\* The scheduler and its control surface: the class driven through its own
\* methods, or the application from startup to shutdown.
Init ==
    /\ dd_in = <<>> /\ dd_out = <<>> /\ dd_pc = "idle"
    /\ app \in {"lib", "boot"}
    /\ news_api \in (IF app = "lib" THEN BOOLEAN ELSE {TRUE})
    /\ SysIdle
    /\ ImagesIdle
    /\ IntervalIdle

Next ==
    \/ LibStart
    \/ LibStop
    \/ Startup
    \/ StartNewsFetching
    \/ StopNewsFetching
    \/ Shutdown
    \/ \E t \in TaskIds : BeginCycle(t, LifecycleFeeds)
    \/ \E t \in TaskIds : ApiReturn(t, LifecycleResponses)
    \/ \E t \in TaskIds : ClassifyReturn(t, LifecycleAnswers)
    \/ \E t \in TaskIds : CancelDeliver(t)

Spec == Init /\ [][Next]_vars

\* One scheduler with a headline API key, started once and left running,
\* over everything the sources can serve.
CycleInit ==
    /\ dd_in = <<>> /\ dd_out = <<>> /\ dd_pc = "idle"
    /\ app = "lib"
    /\ news_api = TRUE
    /\ SysIdle
    /\ ImagesIdle
    /\ IntervalIdle

CycleNext ==
    \/ LibStart
    \/ \E t \in TaskIds : BeginCycle(t, RssFeeds(RssEntries))
    \/ \E t \in TaskIds : ApiReturn(t, ApiResponses(ApiItems))
    \/ \E t \in TaskIds : ClassifyReturn(t, LifecycleAnswers)

SpecCycle == CycleInit /\ [][CycleNext]_vars

\* The application from startup on: the loop started at startup, manual
\* fetch cycles and /scrape-and-summarize requests, interleaved.
RequestsInit ==
    /\ dd_in = <<>> /\ dd_out = <<>> /\ dd_pc = "idle"
    /\ app = "boot"
    /\ news_api = TRUE
    /\ SysIdle
    /\ ImagesIdle
    /\ IntervalIdle

RequestsNext ==
    \/ Startup
    \/ \E t \in TaskIds : BeginCycle(t, LifecycleFeeds)
    \/ \E t \in TaskIds : ApiReturn(t, LifecycleResponses)
    \/ \E t \in TaskIds : ClassifyReturn(t, LifecycleAnswers)
    \/ FetchNewsOnce(LifecycleFeeds)
    \/ OnceApiReturn(LifecycleResponses)
    \/ OnceClassifyReturn(LifecycleAnswers)
    \/ \E u \in Urls : ScrapeAndSummarize(u)
    \/ ScrapeClassifyReturn

SpecRequests == RequestsInit /\ [][RequestsNext]_vars

\* One scheduler started once, over everything the classification service
\* can answer.
ClassifyInit ==
    /\ dd_in = <<>> /\ dd_out = <<>> /\ dd_pc = "idle"
    /\ app = "lib"
    /\ news_api = TRUE
    /\ SysIdle
    /\ ImagesIdle
    /\ IntervalIdle

ClassifyNext ==
    \/ LibStart
    \/ \E t \in TaskIds : BeginCycle(t, LifecycleFeeds)
    \/ \E t \in TaskIds : ApiReturn(t, LifecycleResponses)
    \/ \E t \in TaskIds : ClassifyReturn(t, ClassifierAnswers)

SpecClassify == ClassifyInit /\ [][ClassifyNext]_vars

\* One call of extract_images on any document.
Docs ==
    [imgs : SeqsUpTo(ImgTags, MaxImgs), og : OgImages, twitter : TwitterImages,
     parses : BOOLEAN]

ImagesInit ==
    /\ dd_in = <<>> /\ dd_out = <<>> /\ dd_pc = "idle"
    /\ app = "lib"
    /\ news_api = FALSE
    /\ SysIdle
    /\ img_in \in Docs
    /\ img_out = NoImages
    /\ img_pc = "call"
    /\ IntervalIdle

ExtractImagesCall ==
    /\ img_pc = "call"
    /\ img_out' = ExtractImages(img_in)
    /\ img_pc' = "returned"
    /\ UNCHANGED <<dd_vars, iv_vars, sys_vars, img_in>>

ImagesNext == ExtractImagesCall

SpecImages == ImagesInit /\ [][ImagesNext]_vars

\* The sleeps of one loop, for any interval_minutes it is started with
\* (SchedulerConfig.interval_minutes is an int without a validator).
Intervals == 0..MaxInterval

IntervalInit ==
    /\ dd_in = <<>> /\ dd_out = <<>> /\ dd_pc = "idle"
    /\ app = "lib"
    /\ news_api = FALSE
    /\ SysIdle
    /\ ImagesIdle
    /\ iv_in \in Intervals
    /\ iv_out = 0
    /\ iv_pc = "cycle"

\* A cycle returned: asyncio.sleep(interval_minutes * 60), then the next.
SleepInterval ==
    /\ iv_pc = "cycle"
    /\ iv_out' = iv_in * 60
    /\ iv_pc' = "sleep"
    /\ UNCHANGED <<dd_vars, sys_vars, img_vars, iv_in>>

\* An exception escaped a cycle: asyncio.sleep(300), then the next.
SleepCooldown ==
    /\ iv_pc = "cycle"
    /\ iv_out' = CooldownSeconds
    /\ iv_pc' = "cooldown"
    /\ UNCHANGED <<dd_vars, sys_vars, img_vars, iv_in>>

\* The sleep is over.
WakeUp ==
    /\ iv_pc \in {"sleep", "cooldown"}
    /\ iv_pc' = "cycle"
    /\ UNCHANGED <<dd_vars, sys_vars, img_vars, iv_in, iv_out>>

IntervalNext == SleepInterval \/ SleepCooldown \/ WakeUp

SpecInterval == IntervalInit /\ [][IntervalNext]_vars

\* One call of _remove_duplicates on any list of articles.
DedupItems ==
    {NewsItem(u, t, "full", s) : u \in Urls, t \in Titles, s \in {"BBC", "CNN"}}

DedupInit ==
    /\ dd_in \in SeqsUpTo(DedupItems, MaxArticles)
    /\ dd_out = <<>>
    /\ dd_pc = "call"
    /\ app = "lib"
    /\ news_api = FALSE
    /\ SysIdle
    /\ ImagesIdle
    /\ IntervalIdle

DedupCall ==
    /\ dd_pc = "call"
    /\ dd_out' = RemoveDuplicates(dd_in)
    /\ dd_pc' = "returned"
    /\ UNCHANGED <<dd_in, sys_vars, img_vars, iv_vars>>

DedupNext == DedupCall

SpecDedup == DedupInit /\ [][DedupNext]_vars

\* ------------------------------------------------------------ properties
\* Case folding as the properties read it: every cased character to its
\* upper-case form.
UpperChar(c) ==
    CASE c = "s" -> "S"
      [] c = "t" -> "T"
      [] c = "r" -> "R"
      [] OTHER -> c

EqualIgnoringCase(a, b) ==
    /\ Len(a) = Len(b)
    /\ \A i \in 1..Len(a) : UpperChar(a[i]) = UpperChar(b[i])

\* a is b with some elements left out, the order kept.
RECURSIVE IsSubsequence(_, _)
IsSubsequence(a, b) ==
    IF a = <<>> THEN TRUE
    ELSE IF b = <<>> THEN FALSE
    ELSE IF Head(a) = Head(b) THEN IsSubsequence(Tail(a), Tail(b))
    ELSE IsSubsequence(a, Tail(b))

\* C1: _remove_duplicates returns an order-preserving subsequence of its
\* argument in which no two articles have the same URL (and a non-empty
\* argument keeps its first article).
C1_DedupSubsequenceDistinctUrls ==
    dd_pc = "returned" =>
        /\ IsSubsequence(dd_out, dd_in)
        /\ \A i, j \in 1..Len(dd_out) : i # j => dd_out[i].url # dd_out[j].url
        /\ dd_in # <<>> => dd_out # <<>> /\ dd_out[1] = dd_in[1]

\* C1 witness: a list of three in which one article repeats the URL of an
\* earlier one under another title, and is dropped.
C1_Witness ==
    /\ dd_pc = "returned"
    /\ Len(dd_in) = 3
    /\ Len(dd_out) = 2
    /\ \E i, j \in 1..3 :
         /\ i < j
         /\ dd_in[i].url = dd_in[j].url
         /\ ~EqualIgnoringCase(dd_in[i].title, dd_in[j].title)
         /\ \A k \in 1..3 : k # j => dd_in[k].url # dd_in[j].url \/ k = i

\* C2: no two articles returned by _remove_duplicates have titles that are
\* equal ignoring case: an article whose title equals, ignoring case, that of
\* an article kept before it is dropped, whatever its URL.
C2_DedupTitlesIgnoringCase ==
    dd_pc = "returned" =>
        /\ \A i, j \in 1..Len(dd_out) :
             i # j => ~EqualIgnoringCase(dd_out[i].title, dd_out[j].title)
        /\ \A j \in 1..Len(dd_in) :
             (\E k \in 1..Len(dd_out) :
                /\ dd_out[k].url # dd_in[j].url
                /\ dd_out[k].title # dd_in[j].title
                /\ EqualIgnoringCase(dd_out[k].title, dd_in[j].title))
             => \A k \in 1..Len(dd_out) : dd_out[k] # dd_in[j]

\* C2 witness: two articles with different URLs whose titles differ in case
\* only; the second is dropped.
C2_Witness ==
    /\ dd_pc = "returned"
    /\ Len(dd_in) = 2
    /\ dd_in[1].url # dd_in[2].url
    /\ dd_in[1].title # dd_in[2].title
    /\ EqualIgnoringCase(dd_in[1].title, dd_in[2].title)
    /\ dd_out = <<dd_in[1]>>

\* The scheduler as section 4.6 of the design sees it.
SchedulerIdle == ~running /\ ActiveLoops = {}

\* A start call and a stop call, at the class or at the control surface.
StartCall == LibStart \/ StartNewsFetching

StopCall == LibStop \/ StopNewsFetching

\* No task was created, ended or cancelled.
SameTasks ==
    \A t \in TaskIds :
        /\ tasks'[t].pc = tasks[t].pc
        /\ tasks'[t].must_cancel = tasks[t].must_cancel

\* C3: a start call made while the scheduler is running creates no loop
\* task, at start_scheduler (self.running is set) and at
\* /start-news-fetching (background_task is not done): the tasks are those
\* there were, and exactly one loop is active after the call (at the class:
\* when no stop call came before).
C3_StartWhileRunningCreatesNoLoop ==
    [][/\ (LibStart /\ running) =>
             /\ tasks' = tasks
             /\ running'
             /\ (\A t \in TaskIds : ~tasks[t].stop_signalled)
                   => Cardinality(ActiveLoops') = 1
       /\ (StartNewsFetching /\ background_task # 0 /\ ~Done(background_task)) =>
             /\ tasks' = tasks
             /\ running' = running
             /\ background_task' = background_task
             /\ Cardinality(ActiveLoops') = 1]_vars

\* C3 witness: /start-news-fetching answered "already running" to a call
\* that met one active loop, and one loop is active.
C3_Witness ==
    /\ app = "up"
    /\ last.op = "start"
    /\ last.ret = "already running"
    /\ last.met.running
    /\ last.met.loops = 1
    /\ Cardinality(ActiveLoops) = 1

\* C4: a stop call made while the scheduler is idle (not running, no active
\* loop) leaves it idle: no task is created or cancelled, the delivered set
\* and the store are as they were; and a start call made while idle sets
\* the scheduler running with exactly one active loop, a new task.
C4_StopWhileIdleIsNoOp ==
    [][/\ (StopCall /\ SchedulerIdle) =>
             /\ SchedulerIdle'
             /\ SameTasks
             /\ processed_urls' = processed_urls
             /\ store' = store
             /\ last'.ret \in {"None", "stopped"}
       /\ (StartCall /\ SchedulerIdle) =>
             /\ running'
             /\ Cardinality(ActiveLoops') = 1
             /\ NumTasks' = NumTasks + 1
             /\ \A t \in ActiveLoops' : tasks[t].pc = "none"]_vars

\* C4 witness: a stop call met a scheduler that had been started and stopped
\* (a task was created, no loop active, the flag down) and left it idle.
C4_Witness ==
    /\ last.op = "stop"
    /\ ~last.met.running
    /\ last.met.loops = 0
    /\ last.met.created >= 1
    /\ SchedulerIdle

\* C5: at most one loop created by a scheduler is active at any time.
C5_AtMostOneActiveLoop == Cardinality(ActiveLoops) <= 1

\* C6: a loop that was alive when a stop call was made starts no fetch
\* cycle after it.
C6_NoCycleAfterStop ==
    [][\A t \in TaskIds :
         tasks[t].stop_signalled => ~BeginCycle(t, LifecycleFeeds)]_vars

\* C7: after an exception escaped a fetch cycle the loop is alive in its
\* cooldown sleep and the scheduler flag is as it was; unless the task is
\* cancelled, a new cycle can start from the cooldown, and the task's next
\* step is the start of a cycle.
C7_LoopSurvivesCycleError ==
    [][\A t \in TaskIds :
         /\ tasks'[t].cycle_error => tasks'[t].pc = "cooldown"
         /\ (tasks'[t].cycle_error /\ ~tasks[t].cycle_error) =>
                /\ running' = running
                /\ tasks[t].pc = "api"
         /\ (tasks[t].pc = "cooldown" /\ ~tasks[t].must_cancel) =>
                ENABLED BeginCycle(t, LifecycleFeeds)
         /\ (tasks[t].pc = "cooldown" /\ tasks'[t].pc # "cooldown") =>
                \/ /\ ~tasks[t].must_cancel
                   /\ tasks'[t].pc \in {"api", "classify", "sleep"}
                   /\ ~tasks'[t].cycle_error
                \/ /\ tasks[t].must_cancel
                   /\ tasks'[t].pc = "done"]_vars

\* C7 witness: an exception escaped a cycle of a running scheduler's loop;
\* the loop is in its cooldown sleep, not cancelled.
C7_Witness ==
    \E t \in TaskIds :
        /\ tasks[t].pc = "cooldown"
        /\ tasks[t].cycle_error
        /\ tasks[t].resp.outcome = "escaped"
        /\ ~tasks[t].must_cancel
        /\ running

\* What a feed entry and a headline item become, as the properties read it.
ItemOfEntry(entry, source) ==
    [url |-> entry.link, title |-> entry.title,
     content |-> IF entry.extract = "" THEN entry.summary ELSE entry.extract,
     source |-> source]

ItemOfHeadline(item) ==
    [url |-> item.url, title |-> item.title,
     content |-> IF item.extract = "" THEN item.description ELSE item.extract,
     source |-> "NewsAPI"]

\* The entries of a source the loop reads, and whether one of them fails.
Served(feeds, source) == Take(feeds[source], EntryCap)

SourceFails(feeds, source) ==
    \E i \in 1..Len(Served(feeds, source)) : ~Served(feeds, source)[i].ok

\* The entries of a source that come before its first failing entry.
BeforeFailure(entries) ==
    LET bad == {i \in 1..Len(entries) : ~entries[i].ok}
        n == IF bad = {} THEN Len(entries)
             ELSE (CHOOSE i \in bad : \A j \in bad : i <= j) - 1
    IN  SubSeq(entries, 1, n)

\* A failed source contributes nothing; any other, all its entries.
ContributionOrNothing(feeds, source) ==
    IF SourceFails(feeds, source) THEN <<>>
    ELSE [i \in 1..Len(Served(feeds, source)) |->
            ItemOfEntry(Served(feeds, source)[i], source)]

\* A source contributes the entries that come before its first failing one.
ContributionBeforeFailure(feeds, source) ==
    LET entries == BeforeFailure(Served(feeds, source))
    IN  [i \in 1..Len(entries) |-> ItemOfEntry(entries[i], source)]

\* What the headline API contributes: nothing when it failed, else every
\* item it served.
HeadlineContribution(answer) ==
    IF answer.outcome = "ok"
    THEN [i \in 1..Len(answer.articles) |-> ItemOfHeadline(answer.articles[i])]
    ELSE <<>>

FromApi(articles) == SelectSeq(articles, LAMBDA a : a.source = "NewsAPI")

Delivered == {"stored", "duplicate", "store_error"}

C9_FailedArticleIsSkipped ==
    \A t \in TaskIds :
        LET tk == tasks[t]
            n == IF tk.pc = "classify" THEN tk.idx - 1 ELSE Len(tk.unique)
        IN  tk.pc \in {"classify", "sleep"} =>
              /\ Len(tk.log) = n
              /\ \A i \in 1..n :
                    /\ tk.log[i].url = tk.unique[i].url
                    /\ tk.log[i].outcome = "error" => tk.unique[i].content = None
                    /\ tk.unique[i].content = None =>
                          tk.log[i].outcome \in {"error", "seen"}
                    /\ tk.log[i].outcome \in Delivered <=>
                          \E j \in 1..Len(tk.processed) :
                              tk.processed[j].url = tk.unique[i].url
              /\ \A i, j \in 1..Len(tk.unique) :
                    i # j => tk.unique[i].url # tk.unique[j].url

\* C9 witness: a cycle whose first article raised and whose second article
\* was stored.
C9_Witness ==
    \E t \in TaskIds :
        /\ tasks[t].pc = "sleep"
        /\ Len(tasks[t].unique) = 2
        /\ tasks[t].log[1].outcome = "error"
        /\ tasks[t].log[2].outcome = "stored"
        /\ Len(tasks[t].processed) = 1

\* C10: at the end of a cycle no URL whose processing failed in it, by an
\* exception or by a store error inside add_news_item, is in processed_urls.
C10_DeliveredOnlyOnSuccess ==
    \A t \in TaskIds :
        tasks[t].pc = "sleep" =>
            \A i \in 1..Len(tasks[t].log) :
                tasks[t].log[i].outcome \in {"error", "store_error"} =>
                    tasks[t].log[i].url \notin processed_urls

\* C11: over the cycles one NewsFetcher runs one after the other, no URL is
\* returned twice: an article joins the list a cycle returns only when its
\* URL is not in processed_urls, the URL is in processed_urls from then on
\* (the set never loses a URL), and so no URL has more than one article
\* built for it.
C11_ReturnedUrlsDisjoint ==
    [][/\ processed_urls \subseteq processed_urls'
       /\ \A u \in Urls : created'[u] <= 1
       /\ \A t \in TaskIds :
            LET old == tasks[t].processed
                new == tasks'[t].processed
            IN  (tasks[t].pc = "classify" /\ Len(new) = Len(old) + 1) =>
                   /\ SubSeq(new, 1, Len(old)) = old
                   /\ new[Len(new)].url \notin processed_urls
                   /\ new[Len(new)].url \in processed_urls'
                   /\ created[new[Len(new)].url] = 0
                   /\ created'[new[Len(new)].url] = 1]_vars

\* C11 witness: a cycle was served a URL that an earlier cycle of the same
\* fetcher returned, and skipped it.
C11_Witness ==
    \E t \in TaskIds :
        /\ tasks[t].pc = "sleep"
        /\ tasks[t].processed = <<>>
        /\ \E k \in 1..Len(tasks[t].log) :
              /\ tasks[t].log[k].outcome = "seen"
              /\ created[tasks[t].log[k].url] = 1
              /\ store[Md5(tasks[t].log[k].url)] = 1

\* C12: over the scheduled cycles and the manual fetch cycles together, at
\* most one dict is built by _process_articles for any URL.
C12_CreatedOncePerUrl == \A u \in Urls : created[u] <= 1

\* The positions of a list whose article has the URL u.
UrlAt(articles, u) == {i \in 1..Len(articles) : articles[i].url = u}

\* Two sources returned an entry of URL u in the cycle.
SharedUrl(tk, u) ==
    \E i, j \in UrlAt(tk.all_articles, u) :
        tk.all_articles[i].source # tk.all_articles[j].source

\* An article before the i-th has another URL and the same title, ignoring
\* case.
TitleTaken(articles, i) ==
    \E k \in 1..(i - 1) :
        /\ articles[k].url # articles[i].url
        /\ EqualIgnoringCase(articles[k].title, articles[i].title)

\* C13: at the end of a cycle in which two sources returned an entry of the
\* same URL, the deduplicated list holds at most one article of that URL and
\* the list returned at most one; it holds exactly one when the URL reached
\* processing (some entry of it is not shadowed by the title of an earlier
\* article), was not delivered before and its processing did not raise, and
\* that one is an entry some source returned.
C13_OneArticlePerSharedUrl ==
    \A t \in TaskIds :
        LET tk == tasks[t]
        IN  tk.pc = "sleep" =>
              \A u \in Urls :
                  SharedUrl(tk, u) =>
                      LET kept == UrlAt(tk.unique, u)
                          made == UrlAt(tk.processed, u)
                          skipped == \E k \in 1..Len(tk.log) :
                                         /\ tk.log[k].url = u
                                         /\ tk.log[k].outcome \in {"seen", "error"}
                      IN  /\ Cardinality(kept) <= 1
                          /\ Cardinality(made) <= 1
                          /\ Cardinality(made) = 1 <=> (kept # {} /\ ~skipped)
                          /\ kept = {} =>
                                \A i \in UrlAt(tk.all_articles, u) :
                                    TitleTaken(tk.all_articles, i)
                          /\ \A j \in made :
                                /\ tk.processed[j].url_hash = Md5(u)
                                /\ \E i \in UrlAt(tk.all_articles, u) :
                                      /\ tk.all_articles[i].title = tk.processed[j].title
                                      /\ tk.all_articles[i].source = tk.processed[j].source

\* C13 witness: two sources returned the same URL under different titles,
\* and the cycle returned one article of that URL, the first source's.
C13_Witness ==
    \E t \in TaskIds, u \in Urls :
        /\ tasks[t].pc = "sleep"
        /\ SharedUrl(tasks[t], u)
        /\ \E i, j \in UrlAt(tasks[t].all_articles, u) :
              tasks[t].all_articles[i].title # tasks[t].all_articles[j].title
        /\ Cardinality(UrlAt(tasks[t].processed, u)) = 1
        /\ \E j \in UrlAt(tasks[t].processed, u) :
              tasks[t].processed[j].source = "BBC"
        /\ \E k \in 1..Len(tasks[t].log) :
              tasks[t].log[k].url = u /\ tasks[t].log[k].outcome = "stored"

\* C14: the url_hash of the dict the processor builds depends on the URL
\* only: two articles gathered with the same URL get the same url_hash
\* whatever their title, body and source; it is the hash add_news_item
\* computes for that dict, and for the dict /scrape-and-summarize builds
\* for the same URL, whether or not the store call succeeds; and every dict
\* returned carries that hash.
C14_HashOfUrlOnly ==
    \A t \in TaskIds :
        LET tk == tasks[t]
        IN  /\ \A i, j \in 1..Len(tk.all_articles) :
                  tk.all_articles[i].url = tk.all_articles[j].url =>
                      ProcessedData(tk.all_articles[i]).url_hash =
                          ProcessedData(tk.all_articles[j]).url_hash
            /\ \A i \in 1..Len(tk.all_articles), fails \in BOOLEAN :
                  LET data == ProcessedData(tk.all_articles[i])
                  IN  /\ AddNewsItem(store, data, fails).url_hash = data.url_hash
                      /\ AddNewsItem(store, ScrapedData(data.url), fails).url_hash
                            = data.url_hash
            /\ \A j \in 1..Len(tk.processed) :
                  \A i \in UrlAt(tk.all_articles, tk.processed[j].url) :
                      tk.processed[j].url_hash =
                          ProcessedData(tk.all_articles[i]).url_hash

\* C14 witness: a cycle gathered the same URL twice, with different titles
\* and different bodies, and stored one record of it.
C14_Witness ==
    \E t \in TaskIds, u \in Urls :
        /\ tasks[t].pc = "sleep"
        /\ \E i, j \in UrlAt(tasks[t].all_articles, u) :
              /\ tasks[t].all_articles[i].title # tasks[t].all_articles[j].title
              /\ tasks[t].all_articles[i].content # tasks[t].all_articles[j].content
        /\ UrlAt(tasks[t].processed, u) # {}
        /\ store[Md5(u)] = 1

\* A fetch cycle is in flight: fetch_all_news was entered and has not
\* returned.
CyclesInFlight ==
    Cardinality({t \in TaskIds : tasks[t].pc \in {"api", "classify"}})
    + (IF manual.pc \in {"api", "classify"} THEN 1 ELSE 0)

\* C15: at most one fetch cycle is in flight, the loop's and the manual
\* ones counted together.
C15_OneCycleInFlight == CyclesInFlight <= 1

\* C16: the store holds at most one record of any url_hash; a step changes
\* it only by adding one record of a url_hash it had none of; add_news_item
\* called with a URL whose url_hash is stored returns False and leaves the
\* store as it is, and so does every step of the loop, of a manual cycle
\* and of /scrape-and-summarize that hands over such a URL.
C16_OneRecordPerHash ==
    [][/\ \A h \in UrlHashes :
            /\ store'[h] <= 1
            /\ store'[h] # store[h] => (store[h] = 0 /\ store'[h] = 1)
       /\ \A u \in Urls, fails \in BOOLEAN :
            store[Md5(u)] > 0 =>
                /\ AddNewsItem(store, ScrapedData(u), fails).ret = FALSE
                /\ AddNewsItem(store, ScrapedData(u), fails).store = store
       /\ \A t \in TaskIds :
            (ClassifyReturn(t, LifecycleAnswers) /\ store[Md5(tasks[t].unique[tasks[t].idx].url)] > 0)
                => store' = store
       /\ (OnceClassifyReturn(LifecycleAnswers) /\ store[Md5(manual.unique[manual.idx].url)] > 0)
                => store' = store
       /\ (ScrapeClassifyReturn /\ store[Md5(scrape)] > 0)
                => store' = store]_vars

\* C16 witness: dicts of one URL were handed to add_news_item by two fetch
\* cycles and the URL is being handed over by /scrape-and-summarize; the
\* store holds one record of it.
C16_Witness ==
    \E u \in Urls :
        /\ created[u] = 2
        /\ scrape = u
        /\ store[Md5(u)] = 1

\* C17: an item whose extraction yields no text is emitted with the
\* description (the summary) the source provided as its content, and no
\* article of a cycle ends in the except clause of the processor.
C17_ExtractionFailureIsNoError ==
    \A t \in TaskIds :
        LET tk == tasks[t]
        IN  tk.pc = "sleep" =>
              /\ tk.resp.outcome = "ok" =>
                    \A k \in 1..Len(tk.resp.articles) :
                        tk.resp.articles[k].extract = "" =>
                            \E i \in 1..Len(tk.all_articles) :
                                /\ tk.all_articles[i].source = "NewsAPI"
                                /\ tk.all_articles[i].url = tk.resp.articles[k].url
                                /\ tk.all_articles[i].content =
                                      tk.resp.articles[k].description
              /\ \A i \in 1..Len(tk.unique) :
                    (tk.unique[i].source # "NewsAPI" /\ tk.unique[i].content # "full")
                        => tk.unique[i].content = "summary"
              /\ \A k \in 1..Len(tk.log) : tk.log[k].outcome # "error"

\* The heuristic score of every img tag of the document is below 100.
ScoresBelow100(doc) ==
    \A i \in 1..Len(doc.imgs) :
        CalculateImageScore(doc.imgs[i], AbsoluteSrc(doc.imgs[i].src)) < 100

\* C18: for a document with an Open Graph image and img tags that all
\* score below 100, extract_images returns the Open Graph image as the top
\* image.
C18_OpenGraphImageIsBest ==
    (/\ img_pc = "returned"
     /\ img_in.parses
     /\ img_in.og # None /\ img_in.og # ""
     /\ ScoresBelow100(img_in))
        => img_out.top_image = img_in.og

\* The width or the height of the tag is declared, and below 200.
DeclaredSmall(img) ==
    \/ (img.width >= 0 /\ img.width < 200)
    \/ (img.height >= 0 /\ img.height < 200)

\* C19: for a document without Open Graph and Twitter Card image tags whose
\* img tags all declare a width or a height below 200, extract_images
\* returns an empty top image.
C19_SmallImagesGiveNoTopImage ==
    (/\ img_pc = "returned"
     /\ img_in.og = None
     /\ img_in.twitter = None
     /\ \A i \in 1..Len(img_in.imgs) : DeclaredSmall(img_in.imgs[i]))
        => img_out.top_image = ""

\* C19 witness: a document that parses, with two img tags that declare a
\* dimension below 200 (one of them the width alone) and no meta image
\* tags; the top image returned is empty.
C19_Witness ==
    /\ img_pc = "returned"
    /\ img_in.parses
    /\ img_in.og = None
    /\ img_in.twitter = None
    /\ Len(img_in.imgs) = 2
    /\ \A i \in 1..2 : DeclaredSmall(img_in.imgs[i])
    /\ \E i \in 1..2 : img_in.imgs[i].height = Absent
    /\ img_out.top_image = ""

\* The document has no img tag that passes the filter and no meta image.
NoUsableImage(doc) ==
    /\ ScanImgs(doc.imgs).images = <<>>
    /\ doc.og \in {None, ""}
    /\ doc.twitter \in {None, ""}

\* C20: no exception leaves extract_images; when one is raised inside it
\* (the markup does not parse, or anything else fails) the result is the
\* empty list and the empty top image; and that empty result is returned
\* only after a failure or for a document without a usable image.
C20_ExtractImagesNeverRaises ==
    img_pc = "returned" =>
        /\ ~img_out.raised
        /\ ~img_in.parses => img_out.failed
        /\ img_out.failed => (img_out.images = {} /\ img_out.top_image = "")
        /\ (img_out.images = {} /\ img_out.top_image = "") =>
              (img_out.failed \/ NoUsableImage(img_in))

\* C20 witness: markup that does not parse, with img tags and an Open Graph
\* image; the call returned the empty result.
C20_Witness ==
    /\ img_pc = "returned"
    /\ ~img_in.parses
    /\ img_in.imgs # <<>>
    /\ img_in.og = "https://host/og.jpg"
    /\ img_out.failed
    /\ ~img_out.raised
    /\ img_out.images = {}
    /\ img_out.top_image = ""

Labels == {CATEGORY_LABELS[i] : i \in 1..Len(CATEGORY_LABELS)}

\* C21: the category of every dict the processor builds is one of
\* CATEGORY_LABELS; and the step in which the classification request of an
\* article fails builds its dict with category "general", returns it, marks
\* the URL delivered and hands the dict to add_news_item, so that the store
\* holds its record unless the store call itself fails.
C21_ClassifierFailureGivesGeneral ==
    [][\A t \in TaskIds :
         /\ \A j \in 1..Len(tasks'[t].processed) :
               tasks'[t].processed[j].category \in Labels
         /\ ClassifyReturn(t, {Answer(TRUE, {})}) =>
               LET new == tasks'[t].processed
                   log == tasks'[t].log
                   article == tasks[t].unique[tasks[t].idx]
               IN  /\ Len(new) = Len(tasks[t].processed) + 1
                   /\ new[Len(new)].url = article.url
                   /\ new[Len(new)].category = "general"
                   /\ article.url \in processed_urls'
                   /\ \E k \in 1..Len(log) :
                         /\ log[k].url = article.url
                         /\ log[k].outcome \in Delivered
                         /\ log[k].outcome # "store_error"
                               => store'[Md5(article.url)] = 1]_vars

\* C21 witness: a cycle returned an article with category "general" and
\* stored it.
C21_Witness ==
    \E t \in TaskIds :
        /\ tasks[t].pc = "sleep"
        /\ Len(tasks[t].processed) = 1
        /\ tasks[t].processed[1].category = "general"
        /\ tasks[t].log[Len(tasks[t].log)].outcome = "stored"
        /\ store[tasks[t].processed[1].url_hash] = 1

\* C22: a start call made at the class while the scheduler is running
\* returns the task of the running loop.
C22_StartReturnsExistingHandle ==
    (app = "lib" /\ last.op = "start" /\ last.met.running) => last.ret = "task"

\* C23: while the application serves requests, is_running of the status
\* report is true exactly when a loop is active and exactly when the
\* scheduler's running flag is set; before startup nothing runs and nothing
\* is reported running, and after shutdown the flag is down and no loop is
\* active.
C23_StatusAgreesWithLoop ==
    /\ app = "up" =>
          /\ IsRunning <=> ActiveLoops # {}
          /\ IsRunning <=> running
          /\ IsRunning => ActiveLoops = {background_task}
    /\ app = "boot" => (~IsRunning /\ ~running /\ ActiveLoops = {})
    /\ app = "down" => (~running /\ ActiveLoops = {})

\* C23 witness: the application was stopped and started again; the second
\* loop is active and reported running, the first is cancelled.
C23_Witness ==
    /\ app = "up"
    /\ last.op = "start"
    /\ last.ret = "started"
    /\ last.met.created = 1
    /\ IsRunning
    /\ running
    /\ ActiveLoops = {2}
    /\ background_task = 2

\* Every entry of a source that does not fail, in order.
ContributionOfSoundEntries(feeds, source) ==
    LET sound == SelectSeq(Served(feeds, source), LAMBDA entry : entry.ok)
    IN  [i \in 1..Len(sound) |-> ItemOfEntry(sound[i], source)]

\* C24: once the RSS sources are read, the cycle holds every entry of every
\* source other than the entries that failed themselves: those before and
\* those after a failing entry.
C24_OtherItemsStillEmitted ==
    \A t \in TaskIds :
        tasks[t].pc = "api" =>
            tasks[t].all_articles =
                ContributionOfSoundEntries(tasks[t].feeds, "BBC")
                \o ContributionOfSoundEntries(tasks[t].feeds, "CNN")

\* C25: the cooldown slept after a failed cycle is strictly shorter than
\* the sleep between two cycles, interval_minutes * 60 seconds.
C25_CooldownShorterThanInterval ==
    iv_pc = "cooldown" => iv_out < iv_in * 60

\* The URL of the article a step found not yet delivered and took up for
\* task t (the task now awaits its classification), if any.
TakenUp(t) ==
    IF /\ tasks'[t].pc = "classify"
       /\ (tasks[t].pc # "classify" \/ tasks[t].idx # tasks'[t].idx)
    THEN {tasks'[t].unique[tasks'[t].idx].url}
    ELSE {}

\* A cycle whose deduplication is done: its first article is kept whatever
\* earlier cycles held, as the URL and title sets of the cycle were empty.
FirstArticleKept(tk) ==
    (tk.pc \in {"classify", "sleep"} /\ tk.all_articles # <<>>) =>
        (tk.unique # <<>> /\ tk.unique[1] = tk.all_articles[1])

\* C26: no step of a cycle, a stop or a restart removes a URL from
\* processed_urls, and no step takes up an article whose URL is in it;
\* the URL and title sets of the deduplication start empty in every cycle.
C26_DeliveredSetOnlyGrows ==
    [][ /\ processed_urls \subseteq processed_urls'
        /\ \A t \in TaskIds : TakenUp(t) \cap processed_urls' = {}
        /\ \A t \in TaskIds : FirstArticleKept(tasks'[t]) ]_vars

\* The loop started after a stop skipped a delivered URL, and two articles
\* with the same title were delivered in different cycles.
C26_Witness ==
    /\ tasks[2].pc = "sleep"
    /\ \E i \in 1..Len(tasks[2].log) :
          /\ tasks[2].log[i].outcome = "seen"
          /\ tasks[2].log[i].url \in processed_urls
    /\ processed_urls = {"u1", "u2"}

\* C27: whatever point of a cycle a cancellation meets, every article the
\* loop handed to add_news_item has its URL in processed_urls, and so has
\* every record of the store.
C27_HandedOverIsRecorded ==
    \A u \in Urls :
        (created[u] > 0 \/ store[Md5(u)] > 0) => u \in processed_urls

\* A loop is cancelled while it awaits the classification of an article,
\* after an earlier article was handed to add_news_item.
C27_Witness ==
    \E t \in TaskIds :
        /\ tasks[t].must_cancel
        /\ tasks[t].pc = "classify"
        /\ \E u \in Urls : created[u] > 0 /\ u # tasks[t].unique[tasks[t].idx].url

\* The score of the i-th img tag of a document.
ScoreOf(doc, i) ==
    CalculateImageScore(doc.imgs[i], AbsoluteSrc(doc.imgs[i].src))

\* The meta image that leads the candidates: Open Graph before Twitter Card.
LeadingMetaImage(doc) ==
    IF doc.og \notin {None, ""} THEN doc.og ELSE doc.twitter

\* C28: every img tag scores below 90, the score of a Twitter Card image,
\* and a document with a meta image tag has it returned as the top image.
C28_MetaImagesOutrankScored ==
    img_pc = "returned" =>
        /\ \A i \in 1..Len(img_in.imgs) : ScoreOf(img_in, i) < 90
        /\ (img_in.parses /\ LeadingMetaImage(img_in) \notin {None, ""}) =>
               img_out.top_image = LeadingMetaImage(img_in)

\* The score with every attribute counted once, however many keywords it
\* holds.
ScoreCountingAttributesOnce(img, src) ==
    LET w == img.width
        h == img.height
        sized == w >= 0 /\ h >= 0
        dims == IF ~sized THEN 0
                ELSE IF w >= 400 /\ h >= 300 THEN 30
                ELSE IF w >= 300 /\ h >= 200 THEN 20
                ELSE IF w >= 200 /\ h >= 150 THEN 10
                ELSE 0
    IN  10 + dims
        + (IF img.class_hits > 0 THEN 25 ELSE 0)
        + (IF img.id_hits > 0 THEN 20 ELSE 0)
        + (IF img.alt_hits > 0 THEN 15 ELSE 0)
        + (IF PhotoExtension(src) THEN 5 ELSE 0)

\* C29: the score of every img tag is 10, one dimension bonus, 25, 20 and
\* 15 for a keyword in the class, the id and the alt text, each attribute
\* counted once, and 5 for a .jpg, .jpeg or .png source.
C29_ScoreCountsAttributesOnce ==
    \A i \in 1..Len(img_in.imgs) :
        ScoreOf(img_in, i) =
            ScoreCountingAttributesOnce(img_in.imgs[i],
                                        AbsoluteSrc(img_in.imgs[i].src))

\* C30: every URL in processed_urls has a record with its hash in the
\* store, and so has every article of the list a cycle returns.
C30_DeliveredIsStored ==
    /\ \A u \in processed_urls : store[Md5(u)] >= 1
    /\ \A t \in TaskIds :
          tasks[t].pc = "sleep" =>
              \A i \in 1..Len(tasks[t].processed) :
                  store[tasks[t].processed[i].url_hash] >= 1

====
